---- MODULE Spec2Model ----
(***************************************************************************)
(* A model of meshopt-rs src/encoding.rs: the quantization offset/scale    *)
(* calculators, the EncodeHeader constructor and the encode/decode         *)
(* wrappers around the native meshoptimizer codec.                         *)
(*                                                                         *)
(* f32 values are modelled bit-exactly.  A finite f32 is the pair <<m, e>> *)
(* standing for m * 2^e, in canonical form: either 2^23 <= |m| < 2^24 and  *)
(* EMin <= e <= EMax (normal), or |m| < 2^23 and e = EMin (subnormal and   *)
(* zero).  Every arithmetic operator rounds to nearest, ties to even, as   *)
(* IEEE-754 binary32 does.  The sign of zero is not modelled (+0 and -0    *)
(* compare equal and nothing below divides by a signed zero result).       *)
(***************************************************************************)
EXTENDS Integers, Sequences, FiniteSets

VARIABLES
    c_op,            \* calculator: the function last called
    c_in,            \* calculator: its argument, a flat sequence of f32
    c_off,           \* calculator: the offset array it returned
    c_scale,         \* calculator: the scale(s) it returned (1 for pos, 2 for uv)
    overflow_checks, \* whether the build checks integer overflow (debug) or wraps
    h_args,          \* EncodeHeader::new: its arguments
    h_ret,           \* EncodeHeader::new: the header returned, or the panic
    codec,           \* which Codec the wrappers are linked against
    k_call,          \* encode/decode wrappers: the last call and its arguments
    k_ret,           \* encode/decode wrappers: the Result it returned
    k_log,           \* the Codec operations that call invoked, with their results
    k_prev           \* the call before it and its Result

calc_vars == <<c_op, c_in, c_off, c_scale>>
header_vars == <<overflow_checks, h_args, h_ret>>
codec_vars == <<codec, k_call, k_ret, k_log, k_prev>>
vars == <<calc_vars, header_vars, codec_vars>>

----------------------------------------------------------------------------
(* f32 *)

Two23 == 2^23
Two24 == 2^24
EMin == 0 - 149
EMax == 104
ESpecial == EMax + 1

Zero == <<0, EMin>>
PosInf == <<1, ESpecial>>
NegInf == <<0 - 1, ESpecial>>
NaN == <<0, ESpecial>>
(* mutant: the running minimum starts from f32::INFINITY *)
F32_MAX_infinity == PosInf
F32_MAX == <<Two24 - 1, EMax>>

IsNaN(x) == x = NaN
IsInf(x) == x = PosInf \/ x = NegInf
IsFinite(x) == x[2] # ESpecial

Sgn(n) == IF n > 0 THEN 1 ELSE IF n < 0 THEN 0 - 1 ELSE 0
Abs(n) == IF n < 0 THEN 0 - n ELSE n

RECURSIVE BitLen(_)
BitLen(n) == IF n = 0 THEN 0 ELSE 1 + BitLen(n \div 2)

(* s * (mag + f) * 2^e rounded to f32, where 0 < f < 1 if sticky and f = 0  *)
(* otherwise; mag < 2^31.  With sticky set the callers supply mag >= 2^25.  *)
RoundPack(s, mag, e, sticky) ==
    LET over == BitLen(mag) - 24
        under == EMin - e
        n == IF over > under THEN over ELSE under
    IN  IF mag = 0 /\ ~sticky THEN Zero
        ELSE IF n <= 0
        THEN \* exact: bring to canonical form
             LET up == IF 0 - over < 0 - under THEN 0 - over ELSE 0 - under
             IN  IF e - up > EMax THEN <<s, ESpecial>>
                 ELSE <<s * mag * 2^up, e - up>>
        ELSE IF n > 30 THEN Zero
        ELSE LET q == mag \div 2^n
                 r == mag % 2^n
                 half == 2^(n - 1)
                 roundup == r > half \/ (r = half /\ (sticky \/ q % 2 = 1))
                 q1 == IF roundup THEN q + 1 ELSE q
                 m2 == IF q1 = Two24 THEN Two23 ELSE q1
                 e2 == IF q1 = Two24 THEN e + n + 1 ELSE e + n
             IN  IF m2 = 0 THEN Zero
                 ELSE IF e2 > EMax THEN <<s, ESpecial>>
                 ELSE <<s * m2, e2>>

(* a < b on f32; every comparison with NaN is false *)
flt(a, b) ==
    LET sa == Sgn(a[1])
        sb == Sgn(b[1])
    IN  IF IsNaN(a) \/ IsNaN(b) THEN FALSE
        ELSE IF sa # sb THEN sa < sb
        ELSE IF sa = 0 THEN FALSE
        ELSE IF sa = 1 THEN a[2] < b[2] \/ (a[2] = b[2] /\ a[1] < b[1])
        ELSE a[2] > b[2] \/ (a[2] = b[2] /\ a[1] < b[1])

fle(a, b) == ~IsNaN(a) /\ ~IsNaN(b) /\ ~flt(b, a)

(* f32::min, f32::max: the other operand when one is NaN *)
fmin(a, b) == IF IsNaN(a) THEN b ELSE IF IsNaN(b) THEN a ELSE IF flt(b, a) THEN b ELSE a
fmax(a, b) == IF IsNaN(a) THEN b ELSE IF IsNaN(b) THEN a ELSE IF flt(a, b) THEN b ELSE a

fneg(a) == <<0 - a[1], a[2]>>

(* x + y for finite x, y with x[2] >= y[2].  x is aligned up to 6 bits     *)
(* below its own last place; what y has below that is the sticky part.      *)
AddAligned(x, y) ==
    LET d == x[2] - y[2]
        k == IF d < 6 THEN d ELSE 6
        X == x[1] * 2^k
        down == d - k
        ymag == Abs(y[1])
        Ymag == IF down > 24 THEN 0 ELSE ymag \div 2^down
        st == IF down > 24 THEN ymag # 0 ELSE ymag % 2^down # 0
        S == X + Sgn(y[1]) * Ymag
        mag == IF st /\ Sgn(y[1]) # Sgn(S) THEN Abs(S) - 1 ELSE Abs(S)
    IN  RoundPack(Sgn(S), mag, x[2] - k, st)

fadd(a, b) ==
    IF IsNaN(a) \/ IsNaN(b) THEN NaN
    ELSE IF IsInf(a) /\ IsInf(b) THEN (IF a = b THEN a ELSE NaN)
    ELSE IF IsInf(a) THEN a
    ELSE IF IsInf(b) THEN b
    ELSE IF a[2] >= b[2] THEN AddAligned(a, b)
    ELSE AddAligned(b, a)

fsub(a, b) == fadd(a, fneg(b))

(* 26 further quotient bits of rem / d by long division: <<quotient, rem>> *)
RECURSIVE DivBits(_, _, _, _)
DivBits(acc, rem, d, n) ==
    IF n = 0 THEN <<acc, rem>>
    ELSE IF 2 * rem >= d THEN DivBits(2 * acc + 1, 2 * rem - d, d, n - 1)
    ELSE DivBits(2 * acc, 2 * rem, d, n - 1)

(* a finite nonzero f32 with its mantissa shifted up to 2^23 <= |m| < 2^24 *)
Normal(a) ==
    LET up == 24 - BitLen(Abs(a[1]))
    IN  <<a[1] * 2^up, a[2] - up>>

fdiv(a, b) ==
    IF IsNaN(a) \/ IsNaN(b) THEN NaN
    ELSE IF IsInf(a) THEN (IF IsInf(b) THEN NaN
                           ELSE IF Sgn(a[1]) * Sgn(b[1]) < 0 THEN NegInf ELSE PosInf)
    ELSE IF IsInf(b) THEN Zero
    ELSE IF b[1] = 0 THEN (IF a[1] = 0 THEN NaN
                           ELSE IF a[1] < 0 THEN NegInf ELSE PosInf)
    ELSE IF a[1] = 0 THEN Zero
    ELSE LET x == Normal(a)
             y == Normal(b)
             ma == Abs(x[1])
             mb == Abs(y[1])
             qr == DivBits(ma \div mb, ma % mb, mb, 26)
         IN  RoundPack(Sgn(a[1]) * Sgn(b[1]), qr[1], x[2] - y[2] - 26, qr[2] # 0)

(* the f32 nearest to m * 2^e, for |m| < 2^31 *)
F(m, e) == RoundPack(Sgn(m), Abs(m), e, FALSE)

One == F(1, 0)

----------------------------------------------------------------------------
(* the offset/scale calculators *)

(* pass 1 of calc_pos_offset_and_scale: vertices i .. n-1 folded into off *)
RECURSIVE PosOffsetPass(_, _, _, _)
PosOffsetPass(positions, off, i, n) ==
    IF i >= n THEN off
    ELSE PosOffsetPass(positions,
                       << fmin(off[1], positions[i * 3 + 1]),
                          fmin(off[2], positions[i * 3 + 2]),
                          fmin(off[3], positions[i * 3 + 3]) >>,
                       i + 1, n)

(* pass 2 of calc_pos_offset_and_scale *)
RECURSIVE PosScalePass(_, _, _, _, _)
PosScalePass(positions, off, scale, i, n) ==
    IF i >= n THEN scale
    ELSE LET s1 == fmax(scale, fsub(positions[i * 3 + 1], off[1]))
             s2 == fmax(s1, fsub(positions[i * 3 + 2], off[2]))
             s3 == fmax(s2, fsub(positions[i * 3 + 3], off[3]))
         IN  PosScalePass(positions, off, s3, i + 1, n)

(* mutant: pass 2 measures the x axis only *)
calc_pos_offset_and_scale_x_only(positions) ==
    LET n == Len(positions) \div 3
        pos_offset == PosOffsetPass(positions, <<F32_MAX, F32_MAX, F32_MAX>>, 0, n)
        xs == [i \in 1..(3 * n) |-> positions[((i - 1) \div 3) * 3 + 1]]
        pos_scale == PosScalePass(xs, <<pos_offset[1], pos_offset[1], pos_offset[1]>>,
                                  Zero, 0, n)
    IN  <<pos_offset, pos_scale>>

calc_pos_offset_and_scale(positions) ==
    LET n == Len(positions) \div 3
        pos_offset == PosOffsetPass(positions, <<F32_MAX, F32_MAX, F32_MAX>>, 0, n)
        pos_scale == PosScalePass(positions, pos_offset, Zero, 0, n)
    IN  <<pos_offset, pos_scale>>

(* crate::utilities::rcp_safe, as the specification states it *)
rcp_safe(v) == IF v = Zero THEN Zero ELSE fdiv(One, v)

(* mutant: a plain reciprocal in place of rcp_safe *)
calc_pos_offset_and_scale_inverse_plain(positions) ==
    LET r == calc_pos_offset_and_scale(positions)
    IN  <<r[1], fdiv(One, r[2])>>

calc_pos_offset_and_scale_inverse(positions) ==
    LET r == calc_pos_offset_and_scale(positions)
        pos_scale_inverse == rcp_safe(r[2])
    IN  <<r[1], pos_scale_inverse>>

(* pass 1 of calc_uv_offset_and_scale *)
RECURSIVE UvOffsetPass(_, _, _, _)
UvOffsetPass(coords, off, i, n) ==
    IF i >= n THEN off
    ELSE UvOffsetPass(coords,
                      << fmin(off[1], coords[i * 2 + 1]),
                         fmin(off[2], coords[i * 2 + 2]) >>,
                      i + 1, n)

(* pass 2 of calc_uv_offset_and_scale *)
RECURSIVE UvScalePass(_, _, _, _, _)
UvScalePass(coords, off, scale, i, n) ==
    IF i >= n THEN scale
    ELSE UvScalePass(coords, off,
                     << fmax(scale[1], fsub(coords[i * 2 + 1], off[1])),
                        fmax(scale[2], fsub(coords[i * 2 + 2], off[2])) >>,
                     i + 1, n)

(* mutant: one scale shared by both axes, as the position calculator has *)
calc_uv_offset_and_scale_shared(coords) ==
    LET n == Len(coords) \div 2
        uv_offset == UvOffsetPass(coords, <<F32_MAX, F32_MAX>>, 0, n)
        uv_scale == UvScalePass(coords, uv_offset, <<Zero, Zero>>, 0, n)
        shared == fmax(uv_scale[1], uv_scale[2])
    IN  <<uv_offset, <<shared, shared>>>>

calc_uv_offset_and_scale(coords) ==
    LET n == Len(coords) \div 2
        uv_offset == UvOffsetPass(coords, <<F32_MAX, F32_MAX>>, 0, n)
        uv_scale == UvScalePass(coords, uv_offset, <<Zero, Zero>>, 0, n)
    IN  <<uv_offset, uv_scale>>

calc_uv_offset_and_scale_inverse(coords) ==
    LET r == calc_uv_offset_and_scale(coords)
        uv_scale_inverse == <<rcp_safe(r[2][1]), rcp_safe(r[2][2])>>
    IN  <<r[1], uv_scale_inverse>>

----------------------------------------------------------------------------
(* the calculators' callers.  The functions keep no state between calls, so *)
(* a behaviour is one call: on any flat array of at most MaxVerts position  *)
(* triples (MaxPairs uv pairs) drawn from the sets below, followed by an    *)
(* incomplete trailing element or none                                      *)

MaxVerts == 2
MaxPairs == 2

Tiny == F(0 - 3, 0 - 26)          \* -3 * 2^-26, about -4.47e-8
Two == F(2, 0)
Three == F(3, 0)
Five == F(5, 0)

RECURSIVE Flatten(_)
Flatten(ss) == IF ss = <<>> THEN <<>> ELSE Head(ss) \o Flatten(Tail(ss))

SeqsUpTo(S, n) == UNION {[1..k -> S] : k \in 0..n}

PosVertexInputs ==
    {<<x, y, z>> : x \in {One, Tiny}, y \in {One, Tiny}, z \in {One, Tiny}}
        \cup {<<One, Two, Three>>, <<Zero, Zero, Zero>>}
PosTailInputs == {<<>>, <<Zero>>, <<Tiny, Five>>}
PositionInputs ==
    {Flatten(vs) \o t : vs \in SeqsUpTo(PosVertexInputs, MaxVerts), t \in PosTailInputs}

UvPairInputs == {<<u, v>> : u \in {Zero, One, Five, Tiny}, v \in {Zero, One, Five, Tiny}}
UvTailInputs == {<<>>, <<Tiny>>}
CoordInputs ==
    {Flatten(ps) \o t : ps \in SeqsUpTo(UvPairInputs, MaxPairs), t \in UvTailInputs}

CalcIdle ==
    /\ c_op = "none"
    /\ c_in = <<>>
    /\ c_off = <<>>
    /\ c_scale = <<>>

HeaderIdle ==
    /\ h_args = [called |-> FALSE]
    /\ h_ret = [tag |-> "none"]

CalcPos ==
    /\ c_op = "none"
    /\ \E positions \in PositionInputs :
        LET r == calc_pos_offset_and_scale(positions)
        IN  /\ c_op' = "calc_pos_offset_and_scale"
            /\ c_in' = positions
            /\ c_off' = r[1]
            /\ c_scale' = <<r[2]>>
            /\ UNCHANGED <<header_vars, codec_vars>>

CalcPosInverse ==
    /\ c_op = "none"
    /\ \E positions \in PositionInputs :
        LET r == calc_pos_offset_and_scale_inverse(positions)
        IN  /\ c_op' = "calc_pos_offset_and_scale_inverse"
            /\ c_in' = positions
            /\ c_off' = r[1]
            /\ c_scale' = <<r[2]>>
            /\ UNCHANGED <<header_vars, codec_vars>>

CalcUv ==
    /\ c_op = "none"
    /\ \E coords \in CoordInputs :
        LET r == calc_uv_offset_and_scale(coords)
        IN  /\ c_op' = "calc_uv_offset_and_scale"
            /\ c_in' = coords
            /\ c_off' = r[1]
            /\ c_scale' = r[2]
            /\ UNCHANGED <<header_vars, codec_vars>>

CalcUvInverse ==
    /\ c_op = "none"
    /\ \E coords \in CoordInputs :
        LET r == calc_uv_offset_and_scale_inverse(coords)
        IN  /\ c_op' = "calc_uv_offset_and_scale_inverse"
            /\ c_in' = coords
            /\ c_off' = r[1]
            /\ c_scale' = r[2]
            /\ UNCHANGED <<header_vars, codec_vars>>

CalcNext == CalcPos \/ CalcPosInverse \/ CalcUv \/ CalcUvInverse

CodecIdle ==
    /\ k_call = [op |-> "none"]
    /\ k_ret = [tag |-> "none"]
    /\ k_log = <<>>
    /\ k_prev = [call |-> [op |-> "none"], ret |-> [tag |-> "none"]]

CalcInit ==
    /\ CalcIdle
    /\ HeaderIdle /\ overflow_checks = FALSE
    /\ CodecIdle /\ codec = "lossless"

SpecCalc == CalcInit /\ [][CalcNext]_vars

----------------------------------------------------------------------------
(* properties of the calculators *)

(* the coordinates of axis a (1-based) of a flat array of the given stride *)
Axis(in, stride, a) == {in[i * stride + a] : i \in 0..(Len(in) \div stride - 1)}
IsMinOf(x, S) == x \in S /\ \A c \in S : fle(x, c)
MaxOf(S) == CHOOSE x \in S : \A c \in S : fle(c, x)
(* a model input or result as an exact multiple of 2^-26 *)
Units(x) ==
    IF x[1] = 0 THEN 0
    ELSE IF x[2] + 26 >= 0 THEN x[1] * 2^(x[2] + 26)
    ELSE x[1] \div 2^(0 - x[2] - 26)
(* the array with every coordinate of axis a replaced by v *)
WithAxis(in, stride, a, v) ==
    [i \in 1..Len(in) |->
        IF ((i - 1) % stride) + 1 = a /\ i <= stride * (Len(in) \div stride)
        THEN v ELSE in[i]]

C4_Case ==
    /\ c_op = "calc_pos_offset_and_scale"
    /\ Len(c_in) > 0
    /\ Len(c_in) % 3 = 0

(* C4 as stated: on a non-empty position array offset[axis] is the minimum *)
(* of the axis, scale >= 0, every coordinate c has                          *)
(* offset[axis] <= c <= offset[axis] + scale (read exactly or in f32), and  *)
(* scale is the maximum of c - offset[axis].                                *)
C4_Original ==
    C4_Case =>
        /\ fle(Zero, c_scale[1])
        /\ \A a \in 1..3 :
              /\ IsMinOf(c_off[a], Axis(c_in, 3, a))
              /\ \A c \in Axis(c_in, 3, a) :
                    /\ fle(c_off[a], c)
                    /\ \/ Units(c) <= Units(c_off[a]) + Units(c_scale[1])
                       \/ fle(c, fadd(c_off[a], c_scale[1]))
        /\ c_scale[1] =
              MaxOf(UNION {{fsub(c, c_off[a]) : c \in Axis(c_in, 3, a)} : a \in 1..3})

(* C4 amended: on a non-empty position array of finite coordinates          *)
(* offset[axis] is the minimum of the axis, scale >= 0, every coordinate c  *)
(* has offset[axis] <= c and its f32 difference c - offset[axis] <= scale,  *)
(* and scale is the maximum of those f32 differences.                       *)
C4_Amended ==
    C4_Case =>
        /\ fle(Zero, c_scale[1])
        /\ \A a \in 1..3 :
              /\ IsMinOf(c_off[a], Axis(c_in, 3, a))
              /\ \A c \in Axis(c_in, 3, a) :
                    /\ fle(c_off[a], c)
                    /\ fle(fsub(c, c_off[a]), c_scale[1])
        /\ c_scale[1] =
              MaxOf(UNION {{fsub(c, c_off[a]) : c \in Axis(c_in, 3, a)} : a \in 1..3})

(* two vertices, one of which lies above offset + scale on its axis *)
C4_Witness ==
    /\ C4_Case
    /\ Len(c_in) = 6
    /\ \E a \in 1..3 : \E c \in Axis(c_in, 3, a) :
          /\ Units(c) > Units(c_off[a]) + Units(c_scale[1])
          /\ flt(fadd(c_off[a], c_scale[1]), c)

(* C5: calc_uv_offset_and_scale measures each axis on its own: scale[a] is  *)
(* the maximum over the pairs of coord[a] - offset[a], offset[a] the axis   *)
(* minimum; no V value changes scale[0] and no U value changes scale[1];    *)
(* [(0,0),(1,5)] gives offset (0,0) and scale (1,5).                        *)
C5_UvScalePerAxis ==
    c_op = "calc_uv_offset_and_scale" =>
        /\ \A a \in 1..2 :
              LET cs == Axis(c_in, 2, a)
              IN  IF cs = {} THEN c_scale[a] = Zero
                  ELSE /\ IsMinOf(c_off[a], cs)
                       /\ c_scale[a] = MaxOf({fsub(c, c_off[a]) : c \in cs})
        /\ \A v \in {Zero, Five} :
              /\ calc_uv_offset_and_scale(WithAxis(c_in, 2, 2, v))[2][1] = c_scale[1]
              /\ calc_uv_offset_and_scale(WithAxis(c_in, 2, 1, v))[2][2] = c_scale[2]
        /\ c_in = <<Zero, Zero, One, Five>> =>
              c_off = <<Zero, Zero>> /\ c_scale = <<One, Five>>

C5_Witness ==
    /\ c_op = "calc_uv_offset_and_scale"
    /\ c_in = <<Zero, Zero, One, Five>>
    /\ c_scale = <<One, Five>>

C6_Case ==
    /\ c_op \in {"calc_pos_offset_and_scale", "calc_uv_offset_and_scale"}
    /\ c_in = <<>>

(* C6 as stated: on an empty array both calculators return an offset of     *)
(* +infinity in every component and a scale of 0 in every component.        *)
C6_Original ==
    C6_Case =>
        /\ \A i \in 1..Len(c_off) : c_off[i] = PosInf
        /\ \A i \in 1..Len(c_scale) : c_scale[i] = Zero

(* C6 amended: on an empty array both calculators return an offset whose    *)
(* every component is f32::MAX = (2^24 - 1) * 2^104, the largest finite     *)
(* f32, and a scale whose every component is 0.                             *)
C6_EmptyGivesMax ==
    C6_Case =>
        /\ Len(c_off) = (IF c_op = "calc_pos_offset_and_scale" THEN 3 ELSE 2)
        /\ \A i \in 1..Len(c_off) : c_off[i] = <<16777215, 104>>
        /\ \A i \in 1..Len(c_scale) : c_scale[i] = Zero

C6_Witness ==
    /\ C6_Case
    /\ c_op = "calc_uv_offset_and_scale"
    /\ c_off = <<F32_MAX, F32_MAX>>
    /\ IsFinite(c_off[1])

(* C8: the inverse calculators return the offset of their counterparts on   *)
(* the same input, and for each scale the reciprocal 0 when the scale is 0  *)
(* and 1/scale otherwise; never infinity or NaN for a zero scale.           *)
C8_InverseAgrees ==
    /\ c_op = "calc_pos_offset_and_scale_inverse" =>
          LET r == calc_pos_offset_and_scale(c_in)
          IN  /\ c_off = r[1]
              /\ c_scale[1] = (IF r[2] = Zero THEN Zero ELSE fdiv(One, r[2]))
              /\ r[2] = Zero => IsFinite(c_scale[1])
    /\ c_op = "calc_uv_offset_and_scale_inverse" =>
          LET r == calc_uv_offset_and_scale(c_in)
          IN  /\ c_off = r[1]
              /\ \A a \in 1..2 :
                    /\ c_scale[a] = (IF r[2][a] = Zero THEN Zero ELSE fdiv(One, r[2][a]))
                    /\ r[2][a] = Zero => IsFinite(c_scale[a])

(* a single vertex: zero extent, reciprocal 0 *)
C8_Witness ==
    /\ c_op = "calc_pos_offset_and_scale_inverse"
    /\ c_in = <<One, Two, Three>>
    /\ c_off = <<One, Two, Three>>
    /\ c_scale = <<Zero>>


----------------------------------------------------------------------------
(* EncodeHeader::new *)

MinI32 == 0 - 2^30 - 2^30
MaxI32 == (2^30 - 1) + 2^30

(* an i32 result, or the panic of a build with overflow checks *)
I32(v, wrapped) == [panic |-> FALSE, v |-> v, wrapped |-> wrapped]
I32Panic(msg) == [panic |-> TRUE, msg |-> msg]

(* 1 << bits on i32, bits a u32: with overflow checks a shift by 32 or more *)
(* panics, without them the shift amount is taken modulo 32; the bit shifted *)
(* into the sign position gives i32::MIN                                     *)
ShlOne(bits, checks) ==
    IF bits >= 32 /\ checks THEN I32Panic("attempt to shift left with overflow")
    ELSE IF bits % 32 = 31 THEN I32(MinI32, bits >= 32)
    ELSE I32(2^(bits % 32), bits >= 32)

(* x - 1 on i32 *)
SubOne(x, checks) ==
    IF x.panic THEN x
    ELSE IF x.v = MinI32
    THEN (IF checks THEN I32Panic("attempt to subtract with overflow")
          ELSE I32(MaxI32, TRUE))
    ELSE I32(x.v - 1, x.wrapped)

I32AsF32(n) == IF n = MinI32 THEN <<0 - Two23, 8>> ELSE F(n, 0)

(* mutant: the step count without the - 1 *)
Steps_power_of_two(bits, checks) == ShlOne(bits, checks)

(* (1 << bits) - 1 *)
Steps(bits, checks) == SubOne(ShlOne(bits, checks), checks)

(* mutant: reserved carries the bit depths *)
EncodeHeader_new_reserved_bits(a, checks) ==
    LET p == Steps(a.pos_bits, checks)
        u == Steps(a.uv_bits, checks)
    IN  IF p.panic THEN [tag |-> "Panic", msg |-> p.msg]
        ELSE IF u.panic THEN [tag |-> "Panic", msg |-> u.msg]
        ELSE [tag |-> "Ok",
              wrapped |-> p.wrapped \/ u.wrapped,
              header |->
                [magic |-> <<"O", "P", "T", "M">>,
                 group_count |-> a.group_count,
                 vertex_count |-> a.vertex_count,
                 index_count |-> a.index_count,
                 vertex_data_size |-> a.vertex_data_size,
                 index_data_size |-> a.index_data_size,
                 pos_offset |-> a.pos_offset,
                 pos_scale |-> fdiv(a.pos_scale, I32AsF32(p.v)),
                 uv_offset |-> a.uv_offset,
                 uv_scale |-> << fdiv(a.uv_scale[1], I32AsF32(u.v)),
                                 fdiv(a.uv_scale[2], I32AsF32(u.v)) >>,
                 reserved |-> <<a.pos_bits, a.uv_bits>>]]

(* EncodeHeader::new(a): the header, with whether its integer arithmetic    *)
(* wrapped, or the panic                                                    *)
EncodeHeader_new(a, checks) ==
    LET p == Steps(a.pos_bits, checks)
        u == Steps(a.uv_bits, checks)
    IN  IF p.panic THEN [tag |-> "Panic", msg |-> p.msg]
        ELSE IF u.panic THEN [tag |-> "Panic", msg |-> u.msg]
        ELSE [tag |-> "Ok",
              wrapped |-> p.wrapped \/ u.wrapped,
              header |->
                [magic |-> <<"O", "P", "T", "M">>,
                 group_count |-> a.group_count,
                 vertex_count |-> a.vertex_count,
                 index_count |-> a.index_count,
                 vertex_data_size |-> a.vertex_data_size,
                 index_data_size |-> a.index_data_size,
                 pos_offset |-> a.pos_offset,
                 pos_scale |-> fdiv(a.pos_scale, I32AsF32(p.v)),
                 uv_offset |-> a.uv_offset,
                 uv_scale |-> << fdiv(a.uv_scale[1], I32AsF32(u.v)),
                                 fdiv(a.uv_scale[2], I32AsF32(u.v)) >>,
                 reserved |-> <<0, 0>>]]

(* the constructor's callers: one call per behaviour *)
F255 == F(255, 0)
CountInputs == {<<0, 0, 0, 0, 0>>, <<1, 2, 3, 4, 5>>, <<7, 65536, 196608, MaxI32, 1>>}
PosOffsetInputs == {<<Zero, Zero, Zero>>, <<One, Two, Tiny>>}
PosScaleInputs == {Zero, One, Three, F255}
UvOffsetInputs == {<<Zero, Zero>>, <<Tiny, Five>>}
UvScaleInputs == {<<One, Five>>, <<F255, Zero>>}
BitsInputs == {0, 1, 2, 8, 24, 25, 30, 31, 32, 33}

HeaderInit ==
    /\ CalcIdle
    /\ HeaderIdle /\ overflow_checks \in BOOLEAN
    /\ CodecIdle /\ codec = "lossless"

New ==
    /\ ~h_args.called
    /\ \E n \in CountInputs, po \in PosOffsetInputs, ps \in PosScaleInputs,
          uo \in UvOffsetInputs, us \in UvScaleInputs,
          pb \in BitsInputs, ub \in BitsInputs :
        LET a == [called |-> TRUE,
                  group_count |-> n[1], vertex_count |-> n[2], index_count |-> n[3],
                  vertex_data_size |-> n[4], index_data_size |-> n[5],
                  pos_offset |-> po, pos_scale |-> ps,
                  uv_offset |-> uo, uv_scale |-> us,
                  pos_bits |-> pb, uv_bits |-> ub]
        IN  /\ h_args' = a
            /\ h_ret' = EncodeHeader_new(a, overflow_checks)
    /\ UNCHANGED <<calc_vars, overflow_checks, codec_vars>>

HeaderNext == New

SpecHeader == HeaderInit /\ [][HeaderNext]_vars

(* 2^bits - 1 for 1 <= bits <= 31 *)
Pow2m1(bits) == (2^(bits - 1) - 1) + 2^(bits - 1)

C7_Stored(maxbits) ==
    (h_args.called /\ h_args.pos_bits \in 1..maxbits /\ h_args.uv_bits \in 1..maxbits) =>
        /\ h_ret.tag = "Ok"
        /\ ~h_ret.wrapped
        /\ h_ret.header.pos_scale = fdiv(h_args.pos_scale, F(Pow2m1(h_args.pos_bits), 0))
        /\ \A i \in 1..2 :
              h_ret.header.uv_scale[i] =
                  fdiv(h_args.uv_scale[i], F(Pow2m1(h_args.uv_bits), 0))
        /\ h_args.pos_bits = 1 => h_ret.header.pos_scale = h_args.pos_scale
        /\ h_args.uv_bits = 1 => h_ret.header.uv_scale = h_args.uv_scale
        /\ (h_args.pos_bits = 8 /\ h_args.pos_scale = F255) => h_ret.header.pos_scale = One

(* C7 as stated: for pos_bits and uv_bits in [1, 31] the divisor             *)
(* (1 << bits) - 1 is computed in 32-bit arithmetic without overflow, equals *)
(* 2^bits - 1, and each raw scale is stored divided by it.                   *)
C7_Original == C7_Stored(31)

(* C7 amended: the same for pos_bits and uv_bits in [1, 30], the division    *)
(* being the f32 division by the divisor converted to f32.                   *)
C7_UpTo30 == C7_Stored(30)

C7_Witness ==
    /\ h_args.called
    /\ h_args.pos_bits = 8
    /\ h_args.uv_bits = 30
    /\ h_args.pos_scale = F255
    /\ h_ret.tag = "Ok"
    /\ h_ret.header.pos_scale = One
    /\ h_ret.header.uv_scale[1] = F(1, 0 - 30)

C10_Fields ==
    /\ h_ret.header.magic = <<"O", "P", "T", "M">>
    /\ h_ret.header.group_count = h_args.group_count
    /\ h_ret.header.vertex_count = h_args.vertex_count
    /\ h_ret.header.index_count = h_args.index_count
    /\ h_ret.header.vertex_data_size = h_args.vertex_data_size
    /\ h_ret.header.index_data_size = h_args.index_data_size
    /\ h_ret.header.pos_offset = h_args.pos_offset
    /\ h_ret.header.uv_offset = h_args.uv_offset
    /\ h_ret.header.reserved = <<0, 0>>

(* C10 as stated: for every argument tuple EncodeHeader::new returns a       *)
(* header holding the counts, sizes and offsets unchanged, the magic OPTM    *)
(* and reserved words of 0, whatever pos_bits and uv_bits are.               *)
C10_Original == h_args.called => (h_ret.tag = "Ok" /\ C10_Fields)

(* C10 amended: every header EncodeHeader::new returns holds those fields;   *)
(* it returns one unless overflow checks are on and a bit depth is 31 or     *)
(* more, when it panics.                                                     *)
C10_WhenReturned ==
    h_args.called =>
        /\ h_ret.tag = "Ok" => C10_Fields
        /\ h_ret.tag = "Panic" <=>
              (overflow_checks /\ (h_args.pos_bits >= 31 \/ h_args.uv_bits >= 31))

C10_Witness ==
    /\ h_args.called
    /\ h_ret.tag = "Ok"
    /\ h_args.group_count = 7
    /\ h_ret.header.group_count = 7
    /\ h_args.pos_bits = 31
    /\ ~overflow_checks

----------------------------------------------------------------------------
(* the Codec: the native library behind crate::ffi.  Its code is not part   *)
(* of encoding.rs; it is modelled from the interface the specification      *)
(* gives.  The "lossless" Codec writes a tag byte and each element's bytes, *)
(* little-endian, and decodes exactly that or reports a negative status.    *)
(* The "opaque" Codec may write any number of bytes up to the buffer's size *)
(* and report any status.                                                   *)

IndexTag == 225
VertexTag == 160
OpaqueByte == 170
StatusInputs == {0 - 3, 0 - 1, 0, 2}
FillInputs == {0, 7}

VecOf(x, n) == [i \in 1..n |-> x]
LE(v, w) == [i \in 1..w |-> (v \div 256^(i - 1)) % 256]
RECURSIVE FromLE(_)
FromLE(bytes) == IF bytes = <<>> THEN 0 ELSE Head(bytes) + 256 * FromLE(Tail(bytes))
Write(dst, payload) ==
    [i \in 1..Len(dst) |-> IF i <= Len(payload) THEN payload[i] ELSE dst[i]]

meshopt_encodeIndexBufferBound(index_count, vertex_count) ==
    3 + 4 * index_count + (vertex_count % 2)

meshopt_encodeVertexBufferBound(vertex_count, vertex_size) ==
    3 + vertex_count * vertex_size

(* the outcomes of an encode into dst: the buffer after it and the size     *)
(* returned (0 when dst is too small)                                       *)
EncodeOutcomes(c, dst, payload) ==
    IF c = "lossless"
    THEN IF Len(payload) > Len(dst) THEN {[buf |-> dst, size |-> 0]}
         ELSE {[buf |-> Write(dst, payload), size |-> Len(payload)]}
    ELSE {[buf |-> Write(dst, VecOf(OpaqueByte, n)), size |-> n] : n \in 0..Len(dst)}

meshopt_encodeIndexBuffer(c, dst, indices) ==
    EncodeOutcomes(c, dst,
                   <<IndexTag>> \o Flatten([i \in 1..Len(indices) |-> LE(indices[i], 4)]))

meshopt_encodeVertexBuffer(c, dst, vertices, vertex_size) ==
    EncodeOutcomes(c, dst, <<VertexTag>> \o Flatten(vertices))

(* the status of a lossless decode of count elements of the given size *)
DecodeStatus(src, tag, count, size) ==
    IF Len(src) < 1 + count * size THEN 0 - 2
    ELSE IF src[1] # tag THEN 0 - 1
    ELSE IF Len(src) > 1 + count * size THEN 0 - 3
    ELSE 0

(* an index below 2^31 stored in an element of size bytes *)
Narrow(v, size) == IF size >= 4 THEN v ELSE v % 256^size

(* the outcomes of a decode into dst: the status and the buffer after it *)
meshopt_decodeIndexBuffer(c, dst, index_count, index_size, src) ==
    IF c = "lossless"
    THEN LET st == DecodeStatus(src, IndexTag, index_count, 4)
         IN  {[status |-> st,
               buf |-> IF st # 0 THEN dst
                       ELSE [i \in 1..index_count |->
                               Narrow(FromLE(SubSeq(src, 4 * i - 2, 4 * i + 1)),
                                      index_size)]]}
    ELSE {[status |-> st, buf |-> IF st # 0 THEN dst ELSE VecOf(f, Len(dst))] :
            st \in StatusInputs, f \in FillInputs}

meshopt_decodeVertexBuffer(c, dst, vertex_count, vertex_size, src) ==
    IF c = "lossless"
    THEN LET st == DecodeStatus(src, VertexTag, vertex_count, vertex_size)
         IN  {[status |-> st,
               buf |-> IF st # 0 THEN dst
                       ELSE [i \in 1..vertex_count |->
                               SubSeq(src, 2 + (i - 1) * vertex_size, 1 + i * vertex_size)]]}
    ELSE {[status |-> st,
           buf |-> IF st # 0 THEN dst ELSE VecOf(VecOf(f, vertex_size), Len(dst))] :
            st \in StatusInputs, f \in FillInputs}

----------------------------------------------------------------------------
(* the encode/decode wrappers *)

Ok(v) == [tag |-> "Ok", kind |-> "", code |-> 0, msg |-> "", val |-> v]
ErrNative(code) == [tag |-> "Err", kind |-> "Native", code |-> code, msg |-> "", val |-> <<>>]
ErrMemory(msg) == [tag |-> "Err", kind |-> "Memory", code |-> 0, msg |-> msg, val |-> <<>>]

(* Vec::resize *)
Resize(v, n, x) == IF n <= Len(v) THEN SubSeq(v, 1, n) ELSE v \o VecOf(x, n - Len(v))

(* mutant: the bound-sized buffer is returned as it is *)
EncodeResult_untruncated(out) == Ok(out.buf)

(* mutant: the last byte written is cut off *)
EncodeResult_short(out) == Ok(Resize(out.buf, IF out.size > 0 THEN out.size - 1 ELSE 0, 0))

(* result.resize(size, 0u8); Ok(result) *)
EncodeResult(out) == Ok(Resize(out.buf, out.size, 0))

(* mutant: only negative codes are errors *)
DecodeResult_negative_only(out) ==
    IF out.status >= 0 THEN Ok(out.buf) ELSE ErrNative(out.status)

(* match result_code { 0 => Ok(result), _ => Err(Error::native(result_code)) } *)
DecodeResult(out) == IF out.status = 0 THEN Ok(out.buf) ELSE ErrNative(out.status)

(* mutant: every width up to 4 bytes passes *)
IndexWidthOk_up_to_4(size) == size <= 4

(* mem::size_of::<T>() == 2 || mem::size_of::<T>() == 4 *)
IndexWidthOk(size) == size = 2 \/ size = 4

Invoked(fn, args, ret) == [fn |-> fn, args |-> args, ret |-> ret]

(* the wrappers' callers: an encode, a decode of arbitrary bytes, or a      *)
(* decode of what the encode before it returned                             *)
MaxIndices == 3
MaxVertices == 2

IndexInputs == {0, 70000}
VertexCountInputs == {0, 3}
IndexSizeInputs == {1, 2, 4, 8}
VertexSizeInputs == {1, 4, 12}
VertexInputs(size) == SeqsUpTo({VecOf(0, size), VecOf(255, size)}, MaxVertices)
EncodedInputs ==
    {<<>>, <<IndexTag>>, <<VertexTag>>, <<0, 1, 0, 0, 0>>,
     <<IndexTag, 1, 0, 0, 0>>, <<VertexTag, 1, 0, 0, 0>>, <<IndexTag, 1, 0, 0, 0, 9>>}

CodecInit ==
    /\ CalcIdle
    /\ HeaderIdle /\ overflow_checks = FALSE
    /\ CodecIdle /\ codec \in {"lossless", "opaque"}

EncodeIndexBuffer ==
    /\ k_call.op = "none"
    /\ \E indices \in SeqsUpTo(IndexInputs, MaxIndices), vertex_count \in VertexCountInputs :
        LET bounds == meshopt_encodeIndexBufferBound(Len(indices), vertex_count)
            result == VecOf(0, bounds)
        IN  \E out \in meshopt_encodeIndexBuffer(codec, result, indices) :
              /\ k_call' = [op |-> "encode_index_buffer",
                            indices |-> indices, vertex_count |-> vertex_count]
              /\ k_ret' = EncodeResult(out)
              /\ k_log' = << Invoked("meshopt_encodeIndexBufferBound",
                                     <<Len(indices), vertex_count>>, bounds),
                             Invoked("meshopt_encodeIndexBuffer",
                                     <<Len(result), Len(indices)>>, out.size) >>
    /\ k_prev' = [call |-> k_call, ret |-> k_ret]
    /\ UNCHANGED <<calc_vars, header_vars, codec>>

DecodeIndexBuffer ==
    /\ k_call.op \in {"none", "encode_index_buffer"}
    /\ \E encoded \in (IF k_call.op = "none" THEN EncodedInputs ELSE {k_ret.val}),
          index_count \in 0..MaxIndices, size \in IndexSizeInputs :
        /\ k_call' = [op |-> "decode_index_buffer", encoded |-> encoded,
                      count |-> index_count, size |-> size]
        /\ IF IndexWidthOk(size)
           THEN LET result == VecOf(0, index_count)
                IN  \E out \in meshopt_decodeIndexBuffer(codec, result, index_count,
                                                         size, encoded) :
                      /\ k_ret' = DecodeResult(out)
                      /\ k_log' = << Invoked("meshopt_decodeIndexBuffer",
                                             <<index_count, size, Len(encoded)>>,
                                             out.status) >>
           ELSE /\ k_ret' = ErrMemory("size of result type must be 2 or 4 bytes wide")
                /\ k_log' = <<>>
    /\ k_prev' = [call |-> k_call, ret |-> k_ret]
    /\ UNCHANGED <<calc_vars, header_vars, codec>>

EncodeVertexBuffer ==
    /\ k_call.op = "none"
    /\ \E size \in VertexSizeInputs : \E vertices \in VertexInputs(size) :
        LET bounds == meshopt_encodeVertexBufferBound(Len(vertices), size)
            result == VecOf(0, bounds)
        IN  \E out \in meshopt_encodeVertexBuffer(codec, result, vertices, size) :
              /\ k_call' = [op |-> "encode_vertex_buffer",
                            vertices |-> vertices, size |-> size]
              /\ k_ret' = EncodeResult(out)
              /\ k_log' = << Invoked("meshopt_encodeVertexBufferBound",
                                     <<Len(vertices), size>>, bounds),
                             Invoked("meshopt_encodeVertexBuffer",
                                     <<Len(result), Len(vertices), size>>, out.size) >>
    /\ k_prev' = [call |-> k_call, ret |-> k_ret]
    /\ UNCHANGED <<calc_vars, header_vars, codec>>

DecodeVertexBuffer ==
    /\ k_call.op \in {"none", "encode_vertex_buffer"}
    /\ \E encoded \in (IF k_call.op = "none" THEN EncodedInputs ELSE {k_ret.val}),
          vertex_count \in 0..MaxVertices, size \in VertexSizeInputs :
        LET result == VecOf(VecOf(0, size), vertex_count)
        IN  \E out \in meshopt_decodeVertexBuffer(codec, result, vertex_count,
                                                  size, encoded) :
              /\ k_call' = [op |-> "decode_vertex_buffer", encoded |-> encoded,
                            count |-> vertex_count, size |-> size]
              /\ k_ret' = DecodeResult(out)
              /\ k_log' = << Invoked("meshopt_decodeVertexBuffer",
                                     <<vertex_count, size, Len(encoded)>>, out.status) >>
    /\ k_prev' = [call |-> k_call, ret |-> k_ret]
    /\ UNCHANGED <<calc_vars, header_vars, codec>>

CodecNext ==
    EncodeIndexBuffer \/ DecodeIndexBuffer \/ EncodeVertexBuffer \/ DecodeVertexBuffer

SpecCodec == CodecInit /\ [][CodecNext]_vars

(* C1: decode_index_buffer with an element width other than 2 or 4 bytes    *)
(* returns the MemoryError, whatever the input and index_count, and invokes *)
(* no Codec operation.                                                      *)
C1_BadWidthIsMemoryError ==
    (k_call.op = "decode_index_buffer" /\ k_call.size \notin {2, 4}) =>
        /\ k_ret = ErrMemory("size of result type must be 2 or 4 bytes wide")
        /\ k_log = <<>>

(* a one-byte element type, asked to decode what an encode returned *)
C1_Witness ==
    /\ k_call.op = "decode_index_buffer"
    /\ k_call.size = 1
    /\ k_prev.call.op = "encode_index_buffer"
    /\ Len(k_call.encoded) > 1
    /\ k_call.count = Len(k_prev.call.indices)
    /\ k_ret.kind = "Memory"

(* C2: a decode that invokes the Codec (decode_index_buffer of width 2 or   *)
(* 4, decode_vertex_buffer always) returns NativeError(s) and no sequence   *)
(* for a status s # 0 and Ok of exactly the requested count of elements for *)
(* status 0; decode_vertex_buffer never returns MemoryError.                *)
C2_StatusDecides ==
    k_call.op \in {"decode_index_buffer", "decode_vertex_buffer"} =>
        /\ (k_call.op = "decode_vertex_buffer" \/ k_call.size \in {2, 4}) =>
              /\ Len(k_log) = 1
              /\ k_log[1].fn = (IF k_call.op = "decode_vertex_buffer"
                                THEN "meshopt_decodeVertexBuffer"
                                ELSE "meshopt_decodeIndexBuffer")
        /\ k_log # <<>> =>
              LET s == k_log[1].ret
              IN  /\ s # 0 => k_ret = ErrNative(s)
                  /\ s = 0 => (k_ret.tag = "Ok" /\ Len(k_ret.val) = k_call.count)
        /\ k_call.op = "decode_vertex_buffer" => k_ret.kind # "Memory"

(* a positive status from the Codec, carried by the NativeError *)
C2_Witness ==
    /\ k_call.op = "decode_vertex_buffer"
    /\ k_log[1].ret = 2
    /\ k_ret = ErrNative(2)

(* C3: the bytes an encode returns are as many as the Codec's encode said   *)
(* it wrote, at most the bound the Codec gave for the same parameters, and  *)
(* the encode always returns Ok.                                            *)
C3_EncodeLength ==
    k_call.op \in {"encode_index_buffer", "encode_vertex_buffer"} =>
        /\ k_ret.tag = "Ok"
        /\ Len(k_log) = 2
        /\ k_log[1].args = (IF k_call.op = "encode_index_buffer"
                            THEN <<Len(k_call.indices), k_call.vertex_count>>
                            ELSE <<Len(k_call.vertices), k_call.size>>)
        /\ Len(k_ret.val) = k_log[2].ret
        /\ Len(k_ret.val) <= k_log[1].ret

(* an encode that wrote fewer bytes than the bound *)
C3_Witness ==
    /\ k_call.op = "encode_index_buffer"
    /\ Len(k_call.indices) = 3
    /\ k_ret.tag = "Ok"
    /\ Len(k_ret.val) = 13
    /\ k_log[1].ret > 13

(* C9: with a lossless Codec, decode_index_buffer::<u32> of what            *)
(* encode_index_buffer(indices, vertex_count) returned, with index_count =  *)
(* indices.len(), returns Ok(indices).                                      *)
C9_RoundTrip ==
    ( /\ codec = "lossless"
      /\ k_call.op = "decode_index_buffer"
      /\ k_prev.call.op = "encode_index_buffer"
      /\ k_call.encoded = k_prev.ret.val
      /\ k_call.count = Len(k_prev.call.indices)
      /\ k_call.size = 4 )
    => k_ret = Ok(k_prev.call.indices)

C9_Witness ==
    /\ codec = "lossless"
    /\ k_call.op = "decode_index_buffer"
    /\ k_prev.call.op = "encode_index_buffer"
    /\ k_prev.call.indices = <<70000, 0, 70000>>
    /\ k_call.size = 4
    /\ k_ret = Ok(<<70000, 0, 70000>>)

====
